---- MODULE Spec2Model ----
(***************************************************************************)
(* Batch converters of the observer pipeline (moltbook_to_dojo,            *)
(* moltbook_attack_extractor, public_scam_to_dojo, world_data_to_dojo,     *)
(* feedback_to_dojo): the raw directory, the persisted conversion ledger,  *)
(* the runs of one converter program and the scenario files they write.    *)
(*                                                                         *)
(* The converters share no ledger and no output file name (each has its    *)
(* own ledger file and its own file-name prefix), so a behaviour follows   *)
(* the runs of ONE converter program, chosen in Init; up to two operating- *)
(* system processes (Procs) run that program, possibly at the same time.   *)
(*                                                                         *)
(* The second part follows moltbook_to_dojo through the conversion of one  *)
(* thread: detect_signals, compute_threat_score and the synthesis of the   *)
(* Agent Dojo and Guardian Dojo records (SpecSynth).                       *)
(*                                                                         *)
(* The third part follows the three scorers (moltbook, public_scam,        *)
(* world_data) and the verdicts of to_guardian_dojo_scenario,              *)
(* to_agent_dojo_scenario, convert_scamwatch and convert_reddit over a     *)
(* signal mapping that grows by one matched phrase at a time (SpecScore).  *)
(***************************************************************************)
EXTENDS Integers, FiniteSets, Sequences, TLC

\* ------------------------------------------------------------------ bounds
MaxRecords == 2      \* raw records that can ever arrive in the raw directory
MaxRuns == 2         \* converter runs started in one behaviour

Ids == 1..MaxRecords
Procs == {"A", "B"}

Converters == {"moltbook", "extractor", "public_scam", "world_data", "feedback"}
LedgerGated == Converters \ {"feedback"}
Schemas == {"agent", "guardian", "financial", "bestpractice"}

\* The order in which a converter synthesizes and writes the schemas of one
\* source record.
SchemaOrder(c) ==
  CASE c = "moltbook" -> <<"agent", "guardian">>
    [] c = "extractor" -> <<"agent", "guardian">>
    [] c = "public_scam" -> <<"guardian", "financial">>
    [] c = "world_data" -> <<"guardian", "financial", "agent", "bestpractice">>
    [] c = "feedback" -> <<"financial">>

\* The sets of schemas one well-formed source record can yield records for.
YieldSets(c) ==
  CASE c = "moltbook" -> SUBSET {"agent", "guardian"}
    [] c = "extractor" -> {{}, {"agent", "guardian"}}
    [] c = "public_scam" -> {{}, {"financial"}, {"guardian", "financial"}}
    [] c = "world_data" -> {{}, {"financial"}, {"bestpractice"},
                            {"guardian", "financial"}, {"guardian", "agent"}}
    [] c = "feedback" -> {{"financial"}}

Absent == [state |-> "absent", yields |-> {}]
Malformed == [state |-> "malformed", yields |-> {}]
RawRecords(c) == {Malformed} \cup {[state |-> "ok", yields |-> y] : y \in YieldSets(c)}

VARIABLES
  converter,   \* the converter program whose runs this behaviour follows
  raw,         \* the raw directory: Ids -> raw record (or Absent)
  ledger,      \* the persisted ledger file (processed.json, extracted.json, ...)
  wr,          \* scenario files written so far: Ids -> Schemas -> count
  runs,        \* number of runs started
  pc,          \* Procs -> "idle" | "loop" | "write" | "save"
  processed,   \* Procs -> the run's in-memory ledger set
  scanned,     \* Procs -> raw records present when the run scanned the directory
  pending,     \* Procs -> records the run found unconverted at its start
  todo,        \* Procs -> records the run has still to go through
  mine,        \* Procs -> records the run wrote a scenario record for
  others,      \* Procs -> records that runs overlapping this run wrote one for
  exit,        \* Procs -> how the process's last run ended
  covered,     \* raw records scanned by a run that has completed
  handled,     \* records for which some run finished writing its outputs
  errored,     \* records whose conversion raised an exception that was caught
  failure,     \* the synthesis failure of the step just taken, if any
  thread,      \* synthesis: the conversation thread of the post under conversion
  post,        \* synthesis: the post the thread belongs to
  now,         \* synthesis: the clock (datetime.utcnow)
  out,         \* synthesis: the scenario records produced for the thread so far
  fp,          \* synthesis: how round() resolved each decimal tie it has met
  marks,       \* scoring: the signal mapping, category -> matched phrases
  item,        \* scoring: the source item the signal mapping was detected in
  result,      \* scoring: the score and the records computed for the mapping
  disk,        \* files: the files under ~/.config/observer, path -> content
  dirs,        \* files: the directories that exist under ~/.config/observer
  seconds,     \* files: the second the system clock shows
  job,         \* files: the position of the run of convert_all
  revoked      \* files: c_prime_kill was invoked and the process has ended

bvars == <<converter, raw, ledger, wr, runs, pc, processed, scanned, pending,
           todo, mine, others, exit, covered, handled, errored, failure>>
svars == <<thread, post, now, out, fp>>
cvars == <<marks, item, result>>
fvars == <<disk, dirs, seconds, job, revoked>>
vars == <<bvars, svars, cvars, fvars>>

NoFailure == [id |-> 0, schema |-> "none"]

Exits == {"none", "returned", "saved", "JSONDecodeError", "Exception", "killed"}

TypeOK ==
  /\ converter \in Converters
  /\ raw \in [Ids -> {Absent} \cup RawRecords(converter)]
  /\ ledger \in SUBSET Ids
  /\ wr \in [Ids -> [Schemas -> 0..MaxRuns]]
  /\ runs \in 0..MaxRuns
  /\ pc \in [Procs -> {"idle", "loop", "write", "save"}]
  /\ processed \in [Procs -> SUBSET Ids]
  /\ scanned \in [Procs -> SUBSET Ids]
  /\ pending \in [Procs -> SUBSET Ids]
  /\ todo \in [Procs -> SUBSET Ids]
  /\ mine \in [Procs -> SUBSET Ids]
  /\ others \in [Procs -> SUBSET Ids]
  /\ exit \in [Procs -> Exits]
  /\ covered \in SUBSET Ids
  /\ handled \in SUBSET Ids
  /\ errored \in SUBSET Ids
  /\ failure \in {NoFailure} \cup [id : Ids, schema : Schemas]

BatchInit ==
  /\ converter \in Converters
  /\ raw = [id \in Ids |-> Absent]
  /\ ledger = {}
  /\ wr = [id \in Ids |-> [s \in Schemas |-> 0]]
  /\ runs = 0
  /\ pc = [p \in Procs |-> "idle"]
  /\ processed = [p \in Procs |-> {}]
  /\ scanned = [p \in Procs |-> {}]
  /\ pending = [p \in Procs |-> {}]
  /\ todo = [p \in Procs |-> {}]
  /\ mine = [p \in Procs |-> {}]
  /\ others = [p \in Procs |-> {}]
  /\ exit = [p \in Procs |-> "none"]
  /\ covered = {}
  /\ handled = {}
  /\ errored = {}
  /\ failure = NoFailure

\* No thread is under synthesis.
SynthIdle ==
  /\ thread = <<>>
  /\ post = [id |-> "none", author |-> "none", submolt |-> "none"]
  /\ now = 0
  /\ out = <<>>
  /\ fp = [x \in {} |-> TRUE]

\* No signal mapping is under scoring.
ScoreIdle ==
  /\ marks = [c \in {} |-> <<>>]
  /\ item = [kind |-> "none"]
  /\ result = [kind |-> "none"]

\* An empty ~/.config/observer, and no run of convert_all.
FilesIdle ==
  /\ disk = [f \in {} |-> 0]
  /\ dirs = {}
  /\ seconds = 0
  /\ job = [pc |-> "idle", ts |-> 0, posts |-> <<>>, processed |-> {}]
  /\ revoked = FALSE

Init == BatchInit /\ SynthIdle /\ ScoreIdle /\ FilesIdle

\* ----------------------------------------------------------------- helpers
Active(p) == pc[p] # "idle"
Present == {id \in Ids : raw[id].state # "absent"}
MalformedIds == {id \in Ids : raw[id].state = "malformed"}
Min(S) == CHOOSE x \in S : \A y \in S : x <= y

\* The schemas of yield set y that come before schema f in the converter's
\* order (all of y when f is "none").
Before(c, y, f) ==
  LET ord == SchemaOrder(c)
      pos(s) == CHOOSE i \in 1..Len(ord) : ord[i] = s
  IN  IF f = "none" THEN y ELSE {s \in y : pos(s) < pos(f)}

\* Scenario files of record id written for the schemas in ws.
Written(id, ws) ==
  [wr EXCEPT ![id] = [s \in Schemas |-> IF s \in ws THEN wr[id][s] + 1 ELSE wr[id][s]]]

\* (mutant) the ledger file is not read: every run starts from an empty set.
load_processed_empty == {}

\* The ledger file as a run reads it at its start.
load_processed == ledger

\* A run of p starts: it reads the ledger file into memory and scans the raw
\* directory.  loaded is its in-memory ledger after the scan, pend the records
\* it found unconverted, td the records it will go through, h the records it
\* is already done with (nothing to write), next the place it continues at
\* ("idle" when the run ends at once, with exit ex).
Begin(p, loaded, pend, td, h, next, ex) ==
  /\ pc[p] = "idle"
  /\ runs < MaxRuns
  /\ runs' = runs + 1
  /\ pc' = [pc EXCEPT ![p] = next]
  /\ exit' = [exit EXCEPT ![p] = ex]
  /\ IF next = "idle"
     THEN UNCHANGED <<processed, scanned, pending, todo, others>>
     ELSE /\ processed' = [processed EXCEPT ![p] = loaded]
          /\ scanned' = [scanned EXCEPT ![p] = Present]
          /\ pending' = [pending EXCEPT ![p] = pend]
          /\ todo' = [todo EXCEPT ![p] = td]
          /\ others' = [others EXCEPT ![p] = UNION {mine[q] : q \in Procs \ {p}}]
  /\ covered' = IF ex = "returned" THEN covered \cup Present ELSE covered
  /\ handled' = handled \cup h
  /\ failure' = NoFailure
  /\ UNCHANGED <<converter, raw, ledger, wr, mine, errored>>

\* Scenario files of record id written by the run of p for the schemas ws:
\* the runs that are active at the same time see them as another run's.
Mine(p, id, ws) == [mine EXCEPT ![p] = IF ws # {} THEN @ \cup {id} ELSE @]
Others(p, id, ws) ==
  [q \in Procs |-> IF q # p /\ Active(q) /\ ws # {} THEN others[q] \cup {id} ELSE others[q]]

\* (mutant) a record that yields no scenario is not added to the in-memory
\* ledger.
Advance_marks_only_written(p, id, ws, mark, last, f) ==
  /\ wr' = Written(id, ws)
  /\ processed' = [processed EXCEPT ![p] = IF mark /\ ws # {} THEN @ \cup {id} ELSE @]
  /\ todo' = [todo EXCEPT ![p] = @ \ {id}]
  /\ mine' = Mine(p, id, ws)
  /\ others' = Others(p, id, ws)
  /\ handled' = handled \cup {id}
  /\ pc' = [pc EXCEPT ![p] = IF todo[p] = {id} THEN last ELSE @]
  /\ failure' = IF f = "none" THEN NoFailure ELSE [id |-> id, schema |-> f]
  /\ errored' = IF f = "none" THEN errored ELSE errored \cup {id}
  /\ UNCHANGED <<converter, raw, ledger, runs, scanned, pending, exit, covered>>

\* The run of p is through with record id: it wrote the scenario files of the
\* schemas ws and (mark) added id to its in-memory ledger; after the last
\* record it goes on to `last`.
Advance(p, id, ws, mark, last, f) ==
  /\ wr' = Written(id, ws)
  /\ processed' = [processed EXCEPT ![p] = IF mark THEN @ \cup {id} ELSE @]
  /\ todo' = [todo EXCEPT ![p] = @ \ {id}]
  /\ mine' = Mine(p, id, ws)
  /\ others' = Others(p, id, ws)
  /\ handled' = handled \cup {id}
  /\ pc' = [pc EXCEPT ![p] = IF todo[p] = {id} THEN last ELSE @]
  /\ failure' = IF f = "none" THEN NoFailure ELSE [id |-> id, schema |-> f]
  /\ errored' = IF f = "none" THEN errored ELSE errored \cup {id}
  /\ UNCHANGED <<converter, raw, ledger, runs, scanned, pending, exit, covered>>

\* The run of p ends with exit ex: its memory is gone.
End(p, ex) ==
  /\ pc' = [pc EXCEPT ![p] = "idle"]
  /\ exit' = [exit EXCEPT ![p] = ex]
  /\ processed' = [processed EXCEPT ![p] = {}]
  /\ scanned' = [scanned EXCEPT ![p] = {}]
  /\ pending' = [pending EXCEPT ![p] = {}]
  /\ todo' = [todo EXCEPT ![p] = {}]

\* An exception that nothing catches ends the run of p at record id, after
\* the scenario files of the schemas ws were written; the ledger file is not
\* written.
Abort(p, id, ws, f) ==
  /\ wr' = Written(id, ws)
  /\ End(p, "Exception")
  /\ mine' = [Mine(p, id, ws) EXCEPT ![p] = {}]
  /\ others' = [Others(p, id, ws) EXCEPT ![p] = {}]
  /\ failure' = [id |-> id, schema |-> f]
  /\ UNCHANGED <<converter, raw, ledger, runs, covered, handled, errored>>

\* (mutant) the ledger file is written before the loop over the records is
\* through.
Flush_before_outputs(p, ids) ==
  /\ Active(p)
  /\ ledger' = ids
  /\ End(p, "saved")
  /\ mine' = [mine EXCEPT ![p] = {}]
  /\ others' = [others EXCEPT ![p] = {}]
  /\ covered' = covered \cup scanned[p]
  /\ failure' = NoFailure
  /\ UNCHANGED <<converter, raw, wr, runs, handled, errored>>

\* The run of p writes its in-memory ledger to the ledger file and ends.
Flush(p, ids) ==
  /\ pc[p] = "save"
  /\ ledger' = ids
  /\ End(p, "saved")
  /\ mine' = [mine EXCEPT ![p] = {}]
  /\ others' = [others EXCEPT ![p] = {}]
  /\ covered' = covered \cup scanned[p]
  /\ failure' = NoFailure
  /\ UNCHANGED <<converter, raw, wr, runs, handled, errored>>

\* ------------------------------------------------------------- the bridges
\* A bridge stores a new raw record; a file that is cut short or not JSON is
\* a malformed record.  Raw files are never rewritten.
store_record(id, rec) ==
  /\ raw[id] = Absent
  /\ rec \in RawRecords(converter)
  /\ raw' = [raw EXCEPT ![id] = rec]
  /\ failure' = NoFailure
  /\ UNCHANGED <<converter, ledger, wr, runs, pc, processed, scanned, pending,
                 todo, mine, others, exit, covered, handled, errored>>

\* ---------------------------------------------- moltbook_to_dojo.convert_all
\* load_processed, then both globs over the raw directory: json.loads of a
\* malformed file raises out of convert_all; with no new post it returns.
convert_all_load(p) ==
  /\ converter = "moltbook"
  /\ LET posts == Present \ load_processed
     IN  IF MalformedIds # {}
         THEN Begin(p, load_processed, {}, {}, {}, "idle", "JSONDecodeError")
         ELSE IF posts = {}
         THEN Begin(p, load_processed, {}, {}, {}, "idle", "returned")
         ELSE Begin(p, load_processed, posts, posts, {}, "loop", "none")

\* One turn of the loop over posts: the Agent Dojo file, then the Guardian
\* Dojo file, then processed.add(pid).  fail is the schema whose synthesis or
\* write raises ("none": neither does).
convert_all_record(p, fail) ==
  /\ converter = "moltbook"
  /\ pc[p] = "loop"
  /\ LET id == Min(todo[p])
         y == raw[id].yields
     IN  /\ fail \in {"none"} \cup y
         /\ IF fail = "none"
            THEN Advance(p, id, y, TRUE, "save", "none")
            ELSE Abort(p, id, Before(converter, y, fail), fail)

save_processed(p) ==
  /\ converter = "moltbook"
  /\ Flush(p, processed[p])

\* -------------------------------------- moltbook_attack_extractor.extract_all
\* load_extracted and the first loop: every new post is added to the in-memory
\* set at once; a post that is too short or matches no attack category yields
\* nothing, the others become new_patterns.
extract_all_scan(p) ==
  /\ converter = "extractor"
  /\ LET new == Present \ load_processed
         new_patterns == {id \in new : raw[id].yields # {}}
     IN  IF MalformedIds # {}
         THEN Begin(p, load_processed, {}, {}, {}, "idle", "JSONDecodeError")
         ELSE Begin(p, load_processed \cup new, new, new_patterns, new \ new_patterns,
                    IF new_patterns = {} THEN "save" ELSE "write", "none")

\* One turn of the loop that generates the dojo scenarios of a pattern.
extract_all_write(p, fail) ==
  /\ converter = "extractor"
  /\ pc[p] = "write"
  /\ LET id == Min(todo[p])
         y == raw[id].yields
     IN  /\ fail \in {"none"} \cup y
         /\ IF fail = "none"
            THEN Advance(p, id, y, FALSE, "save", "none")
            ELSE Abort(p, id, Before(converter, y, fail), fail)

save_extracted(p) ==
  /\ converter = "extractor"
  /\ Flush(p, processed[p])

\* ------------------------- public_scam_to_dojo.main, world_data_to_dojo.main
\* The ledger is read, the raw directory globbed; with no file at all main
\* returns, otherwise it loops over the files not in the ledger.
main_load(p) ==
  /\ converter \in {"public_scam", "world_data"}
  /\ LET new_files == Present \ load_processed
     IN  IF Present = {}
         THEN Begin(p, load_processed, {}, {}, {}, "idle", "returned")
         ELSE Begin(p, load_processed, new_files, new_files, {},
                    IF new_files = {} THEN "save" ELSE "loop", "none")

\* One turn of the loop over the files.  A malformed file is skipped and
\* marked.  fail is the schema whose synthesis raises in the converter
\* function, before any file of the record is written: world_data catches
\* the exception and marks the file; public_scam does not catch it.
main_record(p, fail) ==
  /\ converter \in {"public_scam", "world_data"}
  /\ pc[p] = "loop"
  /\ LET id == Min(todo[p])
         y == raw[id].yields
     IN  /\ fail \in {"none"} \cup y
         /\ IF raw[id].state = "malformed" \/ fail = "none"
            THEN /\ fail = "none"
                 /\ Advance(p, id, y, TRUE, "save", "none")
            ELSE IF converter = "world_data"
            THEN Advance(p, id, {}, TRUE, "save", fail)
            ELSE Abort(p, id, {}, fail)

main_save(p) ==
  /\ converter \in {"public_scam", "world_data"}
  /\ Flush(p, processed[p])

\* ------------------------------------------------------- feedback_to_dojo.main
\* load_feedback skips the files it cannot read; main returns when no record
\* is left.  There is no ledger.
load_feedback(p) ==
  /\ converter = "feedback"
  /\ LET records == Present \ MalformedIds
     IN  IF records = {}
         THEN Begin(p, {}, {}, {}, {}, "idle", "returned")
         ELSE Begin(p, {}, records, records, {}, "loop", "none")

\* One turn of the loop of convert_and_save: classify_feedback and the write
\* of the scenario file; main ends after the last record.
convert_and_save(p, fail) ==
  /\ converter = "feedback"
  /\ pc[p] = "loop"
  /\ LET id == Min(todo[p])
         y == raw[id].yields
     IN  /\ fail \in {"none"} \cup y
         /\ IF fail # "none"
            THEN Abort(p, id, {}, fail)
            ELSE /\ wr' = Written(id, y)
                 /\ handled' = handled \cup {id}
                 /\ failure' = NoFailure
                 /\ IF todo[p] = {id}
                    THEN /\ End(p, "returned")
                         /\ mine' = [mine EXCEPT ![p] = {}]
                         /\ others' = [Others(p, id, y) EXCEPT ![p] = {}]
                         /\ covered' = covered \cup scanned[p]
                    ELSE /\ todo' = [todo EXCEPT ![p] = @ \ {id}]
                         /\ mine' = Mine(p, id, y)
                         /\ others' = Others(p, id, y)
                         /\ UNCHANGED <<pc, exit, processed, scanned, pending, covered>>
                 /\ UNCHANGED <<converter, raw, ledger, runs, errored>>

\* ------------------------------------------------------------ interruption
\* The process of a run is killed (or the machine stops) at any point of it.
kill(p) ==
  /\ Active(p)
  /\ End(p, "killed")
  /\ mine' = [mine EXCEPT ![p] = {}]
  /\ others' = [others EXCEPT ![p] = {}]
  /\ failure' = NoFailure
  /\ UNCHANGED <<converter, raw, ledger, wr, runs, covered, handled, errored>>

Fails == {"none"} \cup Schemas

Next ==
  \/ \E id \in Ids, rec \in RawRecords(converter) : store_record(id, rec) /\ UNCHANGED <<svars, cvars, fvars>>
  \/ \E p \in Procs : convert_all_load(p) /\ UNCHANGED <<svars, cvars, fvars>>
  \/ \E p \in Procs, f \in Fails : convert_all_record(p, f) /\ UNCHANGED <<svars, cvars, fvars>>
  \/ \E p \in Procs : save_processed(p) /\ UNCHANGED <<svars, cvars, fvars>>
  \/ \E p \in Procs : extract_all_scan(p) /\ UNCHANGED <<svars, cvars, fvars>>
  \/ \E p \in Procs, f \in Fails : extract_all_write(p, f) /\ UNCHANGED <<svars, cvars, fvars>>
  \/ \E p \in Procs : save_extracted(p) /\ UNCHANGED <<svars, cvars, fvars>>
  \/ \E p \in Procs : main_load(p) /\ UNCHANGED <<svars, cvars, fvars>>
  \/ \E p \in Procs, f \in Fails : main_record(p, f) /\ UNCHANGED <<svars, cvars, fvars>>
  \/ \E p \in Procs : main_save(p) /\ UNCHANGED <<svars, cvars, fvars>>
  \/ \E p \in Procs : load_feedback(p) /\ UNCHANGED <<svars, cvars, fvars>>
  \/ \E p \in Procs, f \in Fails : convert_and_save(p, f) /\ UNCHANGED <<svars, cvars, fvars>>
  \/ \E p \in Procs : kill(p) /\ UNCHANGED <<svars, cvars, fvars>>

Spec == Init /\ [][Next]_vars

\* One run at a time: the converter is started only when no run is active
\* (a single cron job or a single operator).
OneAtATime == Cardinality({p \in Procs : Active(p)}) <= 1
NextSeq ==
  \/ \E id \in Ids, rec \in RawRecords(converter) : store_record(id, rec) /\ UNCHANGED <<svars, cvars, fvars>>
  \/ \E p \in Procs : convert_all_load(p) /\ OneAtATime' /\ UNCHANGED <<svars, cvars, fvars>>
  \/ \E p \in Procs, f \in Fails : convert_all_record(p, f) /\ UNCHANGED <<svars, cvars, fvars>>
  \/ \E p \in Procs : save_processed(p) /\ UNCHANGED <<svars, cvars, fvars>>
  \/ \E p \in Procs : extract_all_scan(p) /\ OneAtATime' /\ UNCHANGED <<svars, cvars, fvars>>
  \/ \E p \in Procs, f \in Fails : extract_all_write(p, f) /\ UNCHANGED <<svars, cvars, fvars>>
  \/ \E p \in Procs : save_extracted(p) /\ UNCHANGED <<svars, cvars, fvars>>
  \/ \E p \in Procs : main_load(p) /\ OneAtATime' /\ UNCHANGED <<svars, cvars, fvars>>
  \/ \E p \in Procs, f \in Fails : main_record(p, f) /\ UNCHANGED <<svars, cvars, fvars>>
  \/ \E p \in Procs : main_save(p) /\ UNCHANGED <<svars, cvars, fvars>>
  \/ \E p \in Procs : load_feedback(p) /\ OneAtATime' /\ UNCHANGED <<svars, cvars, fvars>>
  \/ \E p \in Procs, f \in Fails : convert_and_save(p, f) /\ UNCHANGED <<svars, cvars, fvars>>
  \/ \E p \in Procs : kill(p) /\ UNCHANGED <<svars, cvars, fvars>>

SpecSeq == Init /\ [][NextSeq]_vars

\* ------------------------------------------- moltbook scenario synthesis
MaxThread == 2       \* messages in a conversation thread
MaxClock == 1        \* clock readings after the first
MaxPattern == 8      \* the longest pattern list of MANIPULATION_SIGNALS

\* The categories of MANIPULATION_SIGNALS, in the order of the dict.
Categories ==
  << "trust_building", "urgency_pressure", "authority_claim",
     "information_extraction", "deception", "resource_solicitation",
     "code_injection", "social_dominance", "reputation_gaming" >>

\* The messages a thread is made of. Each is one phrase; joined by blanks
\* they match the patterns of MANIPULATION_SIGNALS phrase by phrase.
Messages ==
  { "you can trust me", "act now", "ACT NOW", "don't wait", "last chance",
    "final offer", "i am the admin", "verify your identity",
    "keep this secret", "send me your coins", "just run this", "shut up",
    "f4f", "follow for follow", "hello" }

\* str.lower(), of a phrase and of a text
lower(m) == IF m = "ACT NOW" THEN "act now" ELSE m
text_lower(text) == [i \in DOMAIN text |-> lower(text[i])]

\* len() of a matched text
len(m) ==
  CASE m = "you can trust me" -> 16
    [] m = "act now" -> 7
    [] m = "don't wait" -> 10
    [] m = "last chance" -> 11
    [] m = "final offer" -> 11
    [] m = "i am the admin" -> 14
    [] m = "verify your identity" -> 20
    [] m = "keep this secret" -> 16
    [] m = "send me your coins" -> 18
    [] m = "just run this" -> 13
    [] m = "shut up" -> 7
    [] m = "f4f" -> 3
    [] m = "follow for follow" -> 17
    [] OTHER -> 0

\* The category and the position in its pattern list of the pattern of
\* MANIPULATION_SIGNALS that a lower-case phrase matches, if any.
Pattern(m) ==
  CASE m = "you can trust me" -> [cat |-> "trust_building", pat |-> 4]
    [] m = "act now" -> [cat |-> "urgency_pressure", pat |-> 1]
    [] m = "don't wait" -> [cat |-> "urgency_pressure", pat |-> 4]
    [] m = "last chance" -> [cat |-> "urgency_pressure", pat |-> 5]
    [] m = "final offer" -> [cat |-> "urgency_pressure", pat |-> 5]
    [] m = "i am the admin" -> [cat |-> "authority_claim", pat |-> 1]
    [] m = "verify your identity" -> [cat |-> "information_extraction", pat |-> 5]
    [] m = "keep this secret" -> [cat |-> "deception", pat |-> 2]
    [] m = "send me your coins" -> [cat |-> "resource_solicitation", pat |-> 1]
    [] m = "just run this" -> [cat |-> "code_injection", pat |-> 5]
    [] m = "shut up" -> [cat |-> "social_dominance", pat |-> 6]
    [] m = "f4f" -> [cat |-> "reputation_gaming", pat |-> 4]
    [] m = "follow for follow" -> [cat |-> "reputation_gaming", pat |-> 4]
    [] OTHER -> [cat |-> "none", pat |-> 0]

Range(s) == {s[i] : i \in DOMAIN s}
Take(s, n) == SubSeq(s, 1, IF n < Len(s) THEN n ELSE Len(s))

RECURSIVE Sum(_, _)
Sum(f, S) ==
  IF S = {} THEN 0
  ELSE LET x == CHOOSE y \in S : TRUE IN f[x] + Sum(f, S \ {x})

\* list(dict.fromkeys(matches))
RECURSIVE fromkeys(_)
fromkeys(s) ==
  IF s = <<>> THEN <<>>
  ELSE LET r == fromkeys(SubSeq(s, 1, Len(s) - 1))
           l == s[Len(s)]
       IN IF l \in Range(r) THEN r ELSE Append(r, l)

\* The phrases of the text that a pattern of the category matches and that
\* are longer than 3, in the order of the text.
matching(cat, lowered) ==
  SelectSeq(lowered, LAMBDA m : Pattern(m).cat = cat /\ len(m) > 3)

\* re.finditer(pattern, text_lower) for the pattern at position pat of a
\* category, among the phrases ms of the text that match the category
finditer(pat, ms) == SelectSeq(ms, LAMBDA m : Pattern(m).pat = pat)

\* The matches of a category: pattern by pattern, and for each pattern in
\* the order of the text.
RECURSIVE matches(_, _)
matches(pat, ms) ==
  IF pat > MaxPattern THEN <<>>
  ELSE finditer(pat, ms) \o matches(pat + 1, ms)

\* detect_signals: the matched phrases of each category that matched, as a
\* function whose domain is the set of matched categories.
detected(found) ==
  [cat \in {c \in DOMAIN found : found[c] # <<>>} |-> found[cat]]
detect_signals(text) ==
  detected([cat \in Range(Categories) |->
              fromkeys(matches(1, matching(cat, text_lower(text))))])

\* signals.keys(): the matched categories in the order of the dict
keys(signals) == SelectSeq(Categories, LAMBDA cat : cat \in DOMAIN signals)

\* Scores are counted in thousandths; sums before rounding in units of 1e-7.
weights(cat) ==
  CASE cat = "trust_building" -> 100
    [] cat = "urgency_pressure" -> 150
    [] cat = "authority_claim" -> 150
    [] cat = "information_extraction" -> 250
    [] cat = "deception" -> 200
    [] cat = "resource_solicitation" -> 200
    [] cat = "code_injection" -> 300
    [] cat = "social_dominance" -> 100
    [] cat = "reputation_gaming" -> 100
    [] OTHER -> 100

\* The contribution of one category: w / 2^i over its first three matches,
\* in millionths.
cat_score(cat, ms) ==
  Sum([i \in 0..(Len(Take(ms, 3)) - 1) |-> (weights(cat) * 1000) \div (2 ^ i)],
      0..(Len(Take(ms, 3)) - 1))

\* A scorer whose multiplier falls when a second category matches.
raw_score_declining(signals) ==
  LET category_scores == [cat \in DOMAIN signals |-> cat_score(cat, signals[cat])]
      n_categories == Cardinality(DOMAIN signals)
      sum == Sum(category_scores, DOMAIN signals)
  IN IF n_categories >= 2 THEN sum * 3
     ELSE IF n_categories = 1 THEN sum * 6
     ELSE sum * 10

\* raw_score after the diversity multiplier (1.3, 1.1 or 0.6), in units of 1e-7
raw_score(signals) ==
  LET category_scores == [cat \in DOMAIN signals |-> cat_score(cat, signals[cat])]
      n_categories == Cardinality(DOMAIN signals)
      sum == Sum(category_scores, DOMAIN signals)
  IN IF n_categories >= 3 THEN sum * 13
     ELSE IF n_categories >= 2 THEN sum * 11
     ELSE IF n_categories = 1 THEN sum * 6
     ELSE sum * 10

\* A raw score exactly half way between two thousandths. The score is a
\* binary double, so round() sends such a value to the neighbour that the
\* representation error of the double favours.
IsTie(x) == x % 10000 = 5000

\* round(x, 3): x in units of 1e-7, the result in thousandths. ties records
\* the direction round() takes at each tie: TRUE is upwards.
round(x, ties) ==
  LET q == x \div 10000
      r == x % 10000
  IN IF r > 5000 \/ (r = 5000 /\ ties[x]) THEN q + 1 ELSE q

compute_threat_score(signals, ties) ==
  IF DOMAIN signals = {} THEN 0
  ELSE LET rounded == round(raw_score(signals), ties)
       IN IF rounded < 1000 THEN rounded ELSE 1000

None == [none |-> TRUE]

Posts ==
  { [id |-> "post-1", author |-> "molty", submolt |-> "general"],
    [id |-> "post-2", author |-> "absent", submolt |-> "absent"] }

_author_name(p) == IF p.author = "absent" THEN "unknown" ELSE p.author
_submolt_name(p) == IF p.submolt = "absent" THEN "unknown" ELSE p.submolt

\* The record to_agent_dojo_scenario returns for a threat score.
agent_scenario(th, signals, p, clock, threat_score) ==
  IF Len(th) < 2 THEN None
  ELSE
    LET has(cat) == cat \in DOMAIN signals
        scenario_type ==
          IF has("code_injection") THEN "dappConnect"
          ELSE IF has("resource_solicitation") THEN "tokenTrade"
          ELSE IF has("authority_claim") /\ has("information_extraction")
            THEN "contractApproval"
          ELSE IF has("information_extraction") THEN "recoveryAssist"
          ELSE "socialEngineering"
        label == IF threat_score >= 300 THEN "suspicious" ELSE "anonymous"
    IN [ source |-> "moltbook",
         scenarioType |-> scenario_type,
         openingPrompt |-> th[1],
         transcript |-> th,
         label |-> label,
         threatScore |-> threat_score,
         detectedSignals |-> [cat \in DOMAIN signals |-> Take(signals[cat], 3)],
         postId |-> p.id,
         agentName |-> _author_name(p),
         submolt |-> _submolt_name(p),
         messageCount |-> Len(th),
         convertedAt |-> clock ]

\* to_agent_dojo_scenario with the type of the last test that holds
to_agent_dojo_scenario_overriding(th, signals, p, clock, ties) ==
  LET rec == agent_scenario(th, signals, p, clock,
                            compute_threat_score(signals, ties))
      has(cat) == cat \in DOMAIN signals
  IN IF rec = None THEN None
     ELSE [rec EXCEPT !.scenarioType =
             IF has("trust_building") /\ has("deception") THEN "socialEngineering"
             ELSE IF has("information_extraction") THEN "recoveryAssist"
             ELSE IF has("authority_claim") /\ has("information_extraction")
               THEN "contractApproval"
             ELSE IF has("resource_solicitation") THEN "tokenTrade"
             ELSE IF has("code_injection") THEN "dappConnect"
             ELSE "socialEngineering"]

to_agent_dojo_scenario(th, signals, p, clock, ties) ==
  agent_scenario(th, signals, p, clock, compute_threat_score(signals, ties))

\* uuid4 is the identifier uuid.uuid4() returns and clock the reading of
\* datetime.utcnow(); threatContent is the thread joined by blanks.
guardian_scenario(th, signals, p, uuid4, clock, threat_score) ==
  LET has(cat) == cat \in DOMAIN signals
      \* the chain of plain ifs, read from its last test to its first: the
      \* last test that holds decides
      scenario_type ==
        IF has("information_extraction") THEN "phishing"
        ELSE IF has("urgency_pressure") /\ has("authority_claim") THEN "seniorScam"
        ELSE IF has("trust_building") /\ has("deception") THEN "grooming"
        ELSE IF has("code_injection") THEN "gamingScam"
        ELSE IF has("resource_solicitation") THEN "phishing"
        ELSE IF has("social_dominance") THEN "bullying"
        ELSE "socialEngineering"
      matched_patterns ==
        IF has("information_extraction")
          THEN Take(signals["information_extraction"], 3)
        ELSE IF has("urgency_pressure") /\ has("authority_claim")
          THEN Take(signals["urgency_pressure"], 2)
               \o Take(signals["authority_claim"], 2)
        ELSE IF has("trust_building") /\ has("deception")
          THEN Take(signals["trust_building"], 2) \o Take(signals["deception"], 2)
        ELSE IF has("code_injection") THEN Take(signals["code_injection"], 3)
        ELSE IF has("resource_solicitation")
          THEN Take(signals["resource_solicitation"], 3)
        ELSE IF has("social_dominance") THEN Take(signals["social_dominance"], 3)
        ELSE IF has("reputation_gaming") THEN Take(signals["reputation_gaming"], 3)
        ELSE <<>>
      is_threat == threat_score >= 250
      correct_decision ==
        IF is_threat THEN (IF threat_score >= 500 THEN "BLOCK" ELSE "ALERT")
        ELSE "ALLOW"
      difficulty ==
        IF threat_score >= 600 THEN "easy"
        ELSE IF threat_score >= 300 THEN "medium"
        ELSE "hard"
  IN IF threat_score < 100 /\ DOMAIN signals = {} THEN None
     ELSE [ source |-> "moltbook",
            id |-> uuid4,
            scenarioType |-> scenario_type,
            profileType |-> "child",
            platform |-> "Moltbook",
            threatContent |-> th,
            displayName |-> _author_name(p),
            riskIndicators |-> keys(signals),
            isThreat |-> is_threat,
            correctDecision |-> correct_decision,
            threatCategory |-> IF is_threat THEN scenario_type ELSE "None",
            severity |-> threat_score,
            patterns |-> Take(matched_patterns, 5),
            conversationHistory |-> th,
            difficulty |-> difficulty,
            postId |-> p.id,
            submolt |-> _submolt_name(p),
            convertedAt |-> clock ]

\* to_guardian_dojo_scenario with a severity that drifts with the clock
to_guardian_dojo_scenario_clocked(th, signals, p, uuid4, clock, ties) ==
  guardian_scenario(th, signals, p, uuid4, clock,
                    (compute_threat_score(signals, ties) + clock) % 1001)

\* to_guardian_dojo_scenario with the type of the first test that holds
to_guardian_dojo_scenario_first_match(th, signals, p, uuid4, clock, ties) ==
  LET rec == guardian_scenario(th, signals, p, uuid4, clock,
                               compute_threat_score(signals, ties))
      has(cat) == cat \in DOMAIN signals
  IN IF rec = None THEN None
     ELSE [rec EXCEPT !.scenarioType =
             IF has("reputation_gaming") THEN "socialEngineering"
             ELSE IF has("social_dominance") THEN "bullying"
             ELSE IF has("resource_solicitation") THEN "phishing"
             ELSE IF has("code_injection") THEN "gamingScam"
             ELSE IF has("trust_building") /\ has("deception") THEN "grooming"
             ELSE IF has("urgency_pressure") /\ has("authority_claim")
               THEN "seniorScam"
             ELSE IF has("information_extraction") THEN "phishing"
             ELSE "socialEngineering"]

to_guardian_dojo_scenario(th, signals, p, uuid4, clock, ties) ==
  guardian_scenario(th, signals, p, uuid4, clock,
                    compute_threat_score(signals, ties))

\* The identifiers uuid.uuid4() can return.
UUIDs == {"uuid-a", "uuid-b"}

RECURSIVE Threads(_)
Threads(n) ==
  IF n = 0 THEN {}
  ELSE Threads(n - 1) \cup [1..n -> Messages]

\* round() at the raw score of the thread: a tie it has met before is
\* resolved as before, a new one in the direction up.
resolved(x, up) ==
  IF IsTie(x) /\ x \notin DOMAIN fp THEN fp @@ (x :> up) ELSE fp

\* A loop body that synthesizes the Guardian scenario only for a thread that
\* gave an Agent scenario.
scenarios_chained(signals, uuid4, ties) ==
  LET agent == to_agent_dojo_scenario(thread, signals, post, now, ties)
  IN [ agent |-> agent,
       guardian |-> IF agent = None THEN None
                    ELSE to_guardian_dojo_scenario(thread, signals, post, uuid4,
                                                   now, ties) ]

\* The scenarios of the thread, for the signals detected in it.
scenarios(signals, uuid4, ties) ==
  [ agent |-> to_agent_dojo_scenario(thread, signals, post, now, ties),
    guardian |-> to_guardian_dojo_scenario(thread, signals, post, uuid4, now,
                                           ties) ]

\* One pass of the body of convert_all's thread loop over the thread.
synthesize(uuid4, up) ==
  /\ Len(out) < 2
  /\ fp' = resolved(raw_score(detect_signals(thread)), up)
  /\ out' = Append(out, scenarios(detect_signals(thread), uuid4, fp'))
  /\ UNCHANGED <<thread, post, now, bvars, cvars, fvars>>

\* Time passes between two readings of datetime.utcnow().
utcnow ==
  /\ now < MaxClock
  /\ now' = now + 1
  /\ UNCHANGED <<thread, post, out, fp, bvars, cvars, fvars>>

InitSynth ==
  /\ BatchInit
  /\ ScoreIdle
  /\ FilesIdle
  /\ converter = "moltbook"
  /\ thread \in Threads(MaxThread)
  /\ post \in Posts
  /\ now = 0
  /\ out = <<>>
  /\ fp = [x \in {} |-> TRUE]

NextSynth ==
  \/ \E uuid4 \in UUIDs, up \in BOOLEAN : synthesize(uuid4, up)
  \/ utcnow

SpecSynth == InitSynth /\ [][NextSynth]_vars

\* ------------------------------------------------ scoring of signal mappings
\* The three scorers are called compute_threat_score in their modules; the
\* ones of public_scam_to_dojo.py and world_data_to_dojo.py carry the module
\* as a prefix here.
MaxMatches == 4   \* matched phrases in the signal mapping under scoring

\* 1.0 in the unit the three scorers are compared in, 1e-8
One == 100000000

\* The converters that score a signal mapping, each with its own taxonomy
Taxonomies == {"moltbook", "public_scam", "world_data"}

\* The categories of public_scam's and world_data's SIGNAL_PATTERNS
ScamCategories ==
  << "urgency_pressure", "authority_claim", "information_extraction",
     "deception", "resource_solicitation", "emotional_manipulation" >>

SIGNAL_PATTERNS(t) ==
  IF t = "moltbook" THEN Range(Categories) ELSE Range(ScamCategories)

public_scam_weights(cat) ==
  CASE cat = "urgency_pressure" -> 150
    [] cat = "authority_claim" -> 150
    [] cat = "information_extraction" -> 250
    [] cat = "deception" -> 200
    [] cat = "resource_solicitation" -> 200
    [] cat = "emotional_manipulation" -> 150
    [] OTHER -> 100

\* The inner loop of public_scam's compute_threat_score over the matches of
\* one category: w * 0.5 ** i for every match, in units of 1e-7 (exact for
\* up to six matches).
public_scam_cat_score(cat, ms) ==
  Sum([i \in 0..(Len(ms) - 1) |-> (public_scam_weights(cat) * 10000) \div (2 ^ i)],
      0..(Len(ms) - 1))

\* score after the diversity multiplier, in units of 1e-8
public_scam_raw_score(signals) ==
  LET n_cats == Cardinality(DOMAIN signals)
      score == Sum([cat \in DOMAIN signals |->
                      public_scam_cat_score(cat, signals[cat])], DOMAIN signals)
  IN IF n_cats >= 3 THEN score * 13
     ELSE IF n_cats >= 2 THEN score * 11
     ELSE IF n_cats = 1 THEN score * 6
     ELSE score * 10

\* A scorer that returns the score without min(score, 1.0).
public_scam_compute_threat_score_unclamped(signals) ==
  public_scam_raw_score(signals)

\* min(score, 1.0), in units of 1e-8
public_scam_compute_threat_score(signals) ==
  IF public_scam_raw_score(signals) < One THEN public_scam_raw_score(signals)
  ELSE One

world_data_weights(cat) ==
  CASE cat = "urgency_pressure" -> 150
    [] cat = "authority_claim" -> 150
    [] cat = "information_extraction" -> 250
    [] cat = "deception" -> 200
    [] cat = "resource_solicitation" -> 200
    [] cat = "emotional_manipulation" -> 150
    [] OTHER -> 100

\* The inner loop of world_data's compute_threat_score, in units of 1e-7
world_data_cat_score(cat, ms) ==
  Sum([i \in 0..(Len(ms) - 1) |-> (world_data_weights(cat) * 10000) \div (2 ^ i)],
      0..(Len(ms) - 1))

\* A scorer without the diversity multiplier.
world_data_compute_threat_score_flat(signals) ==
  LET score == Sum([cat \in DOMAIN signals |->
                      world_data_cat_score(cat, signals[cat])], DOMAIN signals)
  IN IF score * 10 < One THEN score * 10 ELSE One

\* world_data's compute_threat_score, in units of 1e-8: every match counts
world_data_compute_threat_score(signals) ==
  LET n_cats == Cardinality(DOMAIN signals)
      score == Sum([cat \in DOMAIN signals |->
                      world_data_cat_score(cat, signals[cat])], DOMAIN signals)
      multiplied == IF n_cats >= 3 THEN score * 13
                    ELSE IF n_cats >= 2 THEN score * 11
                    ELSE IF n_cats = 1 THEN score * 6
                    ELSE score * 10
  IN IF multiplied < One THEN multiplied ELSE One

\* The value compute_threat_score returns in the taxonomy t, in units of 1e-8
returned_score(t, signals, ties) ==
  CASE t = "moltbook" -> compute_threat_score(signals, ties) * (One \div 1000)
    [] t = "public_scam" -> public_scam_compute_threat_score(signals)
    [] t = "world_data" -> world_data_compute_threat_score(signals)

\* The contribution of the category cat to the score before the diversity
\* multiplier, in units of 1e-7
contribution(t, cat, ms) ==
  CASE t = "moltbook" -> cat_score(cat, ms) * 10
    [] t = "public_scam" -> public_scam_cat_score(cat, ms)
    [] t = "world_data" -> world_data_cat_score(cat, ms)

\* The weight of the category in the taxonomy, in thousandths
weight(t, cat) ==
  CASE t = "moltbook" -> weights(cat)
    [] t = "public_scam" -> public_scam_weights(cat)
    [] t = "world_data" -> world_data_weights(cat)

\* The number of matched phrases in a signal mapping
Matches(signals) ==
  Sum([cat \in DOMAIN signals |-> Len(signals[cat])], DOMAIN signals)

\* The signal mapping with one more matched phrase in the category: the
\* phrases of a category are distinct, the k-th one is written k.
with_match(signals, cat) ==
  IF cat \in DOMAIN signals
  THEN [signals EXCEPT ![cat] = Append(@, Len(@) + 1)]
  ELSE signals @@ (cat :> <<1>>)

\* A value, in units of 1e-9, exactly half way between two thousandths
IsHalf(x) == x % 1000000 = 500000

\* round(x, 3) in public_scam and world_data: x in units of 1e-9, the result
\* in thousandths; ties as for round above.
round3(x, ties) ==
  LET q == x \div 1000000
      r == x % 1000000
  IN IF r > 500000 \/ (r = 500000 /\ ties[x]) THEN q + 1 ELSE q

\* list(signals.keys()) in public_scam and world_data
risk_indicators(signals) ==
  SelectSeq(ScamCategories, LAMBDA cat : cat \in DOMAIN signals)

\* [m for matches in signals.values() for m in matches[:2]]
RECURSIVE patterns(_, _)
patterns(ks, signals) ==
  IF ks = <<>> THEN <<>>
  ELSE Take(signals[Head(ks)], 2) \o patterns(Tail(ks), signals)

\* detect_signals(text + " " + full_text[:500]): the matches of the text
\* followed, per category, by those of the page context
detect_with_context(signals, context) ==
  [cat \in DOMAIN signals \cup DOMAIN context |->
     (IF cat \in DOMAIN signals THEN signals[cat] ELSE <<>>)
       \o (IF cat \in DOMAIN context THEN context[cat] ELSE <<>>)]

\* The signals convert_scamwatch classifies an example by: those of its text,
\* or those of the text and the page context when the text scores below 0.1.
scamwatch_signals(signals, context) ==
  IF public_scam_compute_threat_score(signals) < One \div 10
  THEN detect_with_context(signals, context)
  ELSE signals

\* severity in convert_scamwatch before round(), in units of 1e-9
scamwatch_severity(threat_score) ==
  IF threat_score >= One \div 4
  THEN (IF 3 * One + threat_score * 7 < 10 * One
        THEN 3 * One + threat_score * 7 ELSE 10 * One)
  ELSE threat_score * 10

\* A verdict that blocks from 0.6 on.
scamwatch_verdict_lenient(signals, threat_score, ties) ==
  [ isThreat |-> threat_score >= One \div 4,
    correctDecision |-> IF threat_score >= 6 * (One \div 10) THEN "BLOCK"
                        ELSE IF threat_score >= One \div 4 THEN "ALERT"
                        ELSE "ALLOW",
    severity |-> round3(scamwatch_severity(threat_score), ties),
    difficulty |-> IF threat_score >= One \div 2 THEN "easy"
                   ELSE IF threat_score >= One \div 4 THEN "medium"
                   ELSE "hard",
    riskIndicators |-> risk_indicators(signals),
    patterns |-> patterns(risk_indicators(signals), signals) ]

\* The groundTruth and difficulty convert_scamwatch gives the guardian record
\* and the financial record of one example.
scamwatch_verdict(signals, threat_score, ties) ==
  [ isThreat |-> threat_score >= One \div 4,
    correctDecision |-> IF threat_score >= One \div 2 THEN "BLOCK"
                        ELSE IF threat_score >= One \div 4 THEN "ALERT"
                        ELSE "ALLOW",
    severity |-> round3(scamwatch_severity(threat_score), ties),
    difficulty |-> IF threat_score >= One \div 2 THEN "easy"
                   ELSE IF threat_score >= One \div 4 THEN "medium"
                   ELSE "hard",
    riskIndicators |-> risk_indicators(signals),
    patterns |-> patterns(risk_indicators(signals), signals) ]

\* The records of one example of a Scamwatch record
convert_scamwatch(signals, it, ties) ==
  IF it.chars < 20 THEN [guardian |-> None, financial |-> None]
  ELSE
    [ guardian |->
        scamwatch_verdict(scamwatch_signals(signals, it.context),
          public_scam_compute_threat_score(scamwatch_signals(signals, it.context)),
          ties),
      financial |->
        scamwatch_verdict(scamwatch_signals(signals, it.context),
          public_scam_compute_threat_score(scamwatch_signals(signals, it.context)),
          ties) ]

\* severity of the guardian record of a Reddit post before round(), in units
\* of 1e-9: min(0.3 + threat_score * 0.5, 0.9)
reddit_severity(threat_score) ==
  IF 3 * One + threat_score * 5 < 9 * One
  THEN 3 * One + threat_score * 5 ELSE 9 * One

\* The records of one Reddit post
convert_reddit(signals, it, threat_score, ties) ==
  LET is_scam_report == it.sub \in {"scams", "personalfinance"}
      is_crypto == it.sub = "cryptocurrency"
      is_threat == threat_score >= One \div 5 \/ it.keyword
  IN [ guardian |->
         IF it.chars >= 30 /\ is_scam_report
              /\ (DOMAIN signals # {} \/ it.score >= 5)
         THEN [ isThreat |-> TRUE,
                correctDecision |-> "ALERT",
                severity |-> round3(reddit_severity(threat_score), ties),
                difficulty |-> "medium",
                riskIndicators |-> risk_indicators(signals),
                patterns |-> patterns(risk_indicators(signals), signals) ]
         ELSE None,
       agent |->
         IF it.chars >= 30 /\ is_scam_report
              /\ (DOMAIN signals # {} \/ it.score >= 5)
         THEN [ isThreat |-> TRUE,
                correctDecision |-> "ALERT",
                threatScore |-> round3(threat_score * 10, ties),
                difficulty |-> "medium",
                patterns |-> risk_indicators(signals) ]
         ELSE None,
       financial |->
         IF it.chars >= 30 /\ is_crypto
         THEN [ isThreat |-> is_threat,
                correctDecision |-> IF is_threat THEN "ALERT" ELSE "ALLOW",
                severity |-> round3(threat_score * 10, ties),
                difficulty |-> "medium",
                riskIndicators |-> risk_indicators(signals),
                patterns |-> patterns(risk_indicators(signals), signals) ]
         ELSE None,
       bestpractice |-> None ]

\* The source items a signal mapping is detected in: a moltbook thread with
\* its post, an example of a Scamwatch record with the page context, a Reddit
\* post. chars is the length of the text.
Items(c) ==
  CASE c = "moltbook" ->
         { [kind |-> "thread", thread |-> th,
            post |-> [id |-> "post-1", author |-> "molty", submolt |-> "general"]] :
           th \in {<<"hello">>, <<"hello", "hello">>} }
    [] c = "public_scam" ->
         { [kind |-> "scamwatch", chars |-> n, context |-> [cat \in {} |-> <<>>]] :
           n \in {19, 20} }
    [] c = "world_data" ->
         [ kind : {"reddit"}, chars : {30},
           sub : {"scams", "cryptocurrency", "askreddit"},
           score : {4, 5}, keyword : BOOLEAN ]
           \cup { [kind |-> "reddit", chars |-> 29, sub |-> "scams",
                   score |-> 5, keyword |-> FALSE] }

\* The values the converter of the taxonomy passes to round() for the signal
\* mapping
rounded_values(t, signals, it) ==
  CASE t = "moltbook" -> {raw_score(signals)}
    [] t = "public_scam" ->
         {scamwatch_severity(public_scam_compute_threat_score(
            scamwatch_signals(signals, it.context)))}
    [] t = "world_data" ->
         {reddit_severity(world_data_compute_threat_score(signals)),
          world_data_compute_threat_score(signals) * 10}

\* round() at the values of the signal mapping. In moltbook a tie met before
\* is resolved as before and a new one in the direction up. In public_scam
\* and world_data the double that carries a severity depends on the order in
\* which the matches were summed, so the ties of the mapping are resolved in
\* the direction up whatever earlier mappings met.
resolved_at(t, signals, it, up) ==
  IF t = "moltbook" THEN resolved(raw_score(signals), up)
  ELSE [x \in {y \in rounded_values(t, signals, it) : IsHalf(y)} |-> up]

\* The records the converter of the taxonomy produces for the signal mapping
records(t, signals, it, ties) ==
  CASE t = "moltbook" ->
         [ agent |-> to_agent_dojo_scenario(it.thread, signals, it.post, now, ties),
           guardian |-> to_guardian_dojo_scenario(it.thread, signals, it.post,
                                                  "uuid-a", now, ties) ]
    [] t = "public_scam" -> convert_scamwatch(signals, it, ties)
    [] t = "world_data" ->
         convert_reddit(signals, it, world_data_compute_threat_score(signals), ties)

\* The threat score the converter of the taxonomy classifies the item by, in
\* units of 1e-8
classified_score(t, signals, it, ties) ==
  IF t = "public_scam"
  THEN public_scam_compute_threat_score(scamwatch_signals(signals, it.context))
  ELSE returned_score(t, signals, ties)

\* What the converter of the taxonomy computes for the signal mapping
scored(t, signals, it, ties) ==
  [ kind |-> t,
    score |-> returned_score(t, signals, ties),
    threat_score |-> classified_score(t, signals, it, ties),
    parts |-> [cat \in DOMAIN signals |-> contribution(t, cat, signals[cat])],
    records |-> records(t, signals, it, ties) ]

\* ------------------------------------------------- feedback classification
MaxAlerts == 3     \* alertsTriggered entries of one feedback record
MaxWarnings == 4   \* advisoryWarnings entries of one feedback record

\* The prefixes of a list up to a length
Prefixes(s, n) == {SubSeq(s, 1, k) : k \in 0..(IF n < Len(s) THEN n ELSE Len(s))}

\* suspicionLevel values of feedback records, in units of 1e-8: 0.0, 0.2505,
\* 0.4, 0.4005, 0.5, 0.5005, 0.9 and 1.0
Suspicions ==
  {0, 25050000, 40000000, 40050000, 50000000, 50050000, 90000000, One}

\* The feedback records FreedomWallet exports, by the fields
\* classify_feedback reads; amountUSD in dollars
FeedbackRecords ==
  [ kind : {"feedback"},
    userOverrodeWarning : BOOLEAN,
    suspicionLevel : Suspicions,
    alertsTriggered : Prefixes(<<"alert-1", "alert-2", "alert-3", "alert-4",
                                 "alert-5", "alert-6">>, MaxAlerts),
    advisoryWarnings : Prefixes(<<"warning-1", "warning-2", "warning-3",
                                  "warning-4", "warning-5", "warning-6">>,
                                MaxWarnings),
    autoSignUsed : BOOLEAN,
    amountUSD : {0, 5001} ]

\* severity in classify_feedback before round(), in units of 1e-9; the
\* benign baseline is the literal 0.0
feedback_severity(record) ==
  LET suspicion == record.suspicionLevel
  IN IF record.userOverrodeWarning
     THEN (IF suspicion < 4 * (One \div 10) THEN suspicion * 10 ELSE 4 * One)
     ELSE IF suspicion > One \div 2 /\ record.alertsTriggered = <<>>
       THEN suspicion * 10
     ELSE IF record.alertsTriggered # <<>>
       THEN (IF 5 * One + suspicion * 3 < 9 * One
             THEN 5 * One + suspicion * 3 ELSE 9 * One)
     ELSE 0

\* The scenario classify_feedback builds in the branch it took (1 override,
\* 2 high suspicion without alerts, 3 alerts, 4 none of these): the verdict,
\* the risk indicators and the counts of the transaction context.
feedback_scenario(record, branch, ties) ==
  [ source |-> "production_feedback",
    scenarioType |-> CASE branch = 1 -> "falsePositiveCandidate"
                       [] branch = 2 -> "falseNegativeCandidate"
                       [] branch = 3 -> "truePositive"
                       [] branch = 4 -> "benignBaseline",
    isThreat |-> branch \in {2, 3},
    correctDecision |-> IF branch \in {2, 3} THEN "ALERT" ELSE "ALLOW",
    severity |-> round3(feedback_severity(record), ties),
    difficulty |-> CASE branch \in {1, 2} -> "hard"
                     [] branch = 3 -> "medium"
                     [] branch = 4 -> "easy",
    riskIndicators |->
      record.alertsTriggered
        \o (IF record.autoSignUsed THEN <<"auto_sign_used">> ELSE <<>>)
        \o (IF record.amountUSD > 5000 THEN <<"high_value_tx">> ELSE <<>>)
        \o (IF record.amountUSD > 1000 THEN <<"medium_value_tx">> ELSE <<>>),
    patterns |-> record.alertsTriggered \o Take(record.advisoryWarnings, 3),
    alertCount |-> Len(record.alertsTriggered),
    warningCount |-> Len(record.advisoryWarnings),
    userOverrode |-> record.userOverrodeWarning ]

\* A classification that looks at the alerts before the override.
classify_feedback_alerts_first(record, ties) ==
  feedback_scenario(record,
    IF record.alertsTriggered # <<>> THEN 3
    ELSE IF record.userOverrodeWarning THEN 1
    ELSE IF record.suspicionLevel > One \div 2 THEN 2
    ELSE 4,
    ties)

\* classify_feedback: the if/elif chain over the override, the suspicion
\* level and the alerts
classify_feedback(record, ties) ==
  feedback_scenario(record,
    IF record.userOverrodeWarning THEN 1
    ELSE IF record.suspicionLevel > One \div 2 /\ record.alertsTriggered = <<>> THEN 2
    ELSE IF record.alertsTriggered # <<>> THEN 3
    ELSE 4,
    ties)

\* convert_and_save classifies one feedback record; round() resolves a tie
\* of its severity in the direction up.
classify(up) ==
  /\ converter = "feedback"
  /\ result.kind = "none"
  /\ fp' = [x \in {y \in {feedback_severity(item)} : IsHalf(y)} |-> up]
  /\ result' = [kind |-> "feedback",
                records |-> [financial |-> classify_feedback(item, fp')]]
  /\ UNCHANGED <<marks, item, thread, post, now, out, bvars, fvars>>

\* ------------------------------------------------------ CoinGecko records
MaxCoinAlerts == 1   \* alerts of one CoinGecko record

\* change_pct of an alert, in units of 0.001 per cent
Changes == {-45000, -30001, 0, 30000, 30050, 120000}

Abs(x) == IF x < 0 THEN -x ELSE x

\* The CoinGecko records: the alerts of the fetch and whether it has prices
CoinRecords ==
  [ kind : {"coingecko"},
    alerts : UNION { [1..n -> [direction : {"PUMP", "DUMP"}, change_pct : Changes]] :
                     n \in 0..MaxCoinAlerts },
    prices : BOOLEAN ]

\* severity of an alert before round(), in units of 1e-9, without the bound
coingecko_severity_unclamped(change) == Abs(change) * 10000

\* severity of an alert before round(), in units of 1e-9:
\* min(abs(change) / 100, 1.0)
coingecko_severity(change) ==
  IF Abs(change) * 10000 < 10 * One THEN Abs(change) * 10000 ELSE 10 * One

\* An alert record that is a threat from a change of 30 per cent on
coingecko_alert_inclusive(alert, ties) ==
  [ source |-> "coingecko",
    isThreat |-> Abs(alert.change_pct) >= 30000,
    correctDecision |-> IF Abs(alert.change_pct) > 30000 THEN "ALERT" ELSE "MONITOR",
    severity |-> round3(coingecko_severity(alert.change_pct), ties),
    difficulty |-> IF Abs(alert.change_pct) > 30000 THEN "medium" ELSE "hard",
    riskIndicators |-> <<"extreme_volatility", alert.direction>>,
    patterns |-> <<alert.direction, "extreme_volatility">> ]

\* The record of one alert
coingecko_alert(alert, ties) ==
  [ source |-> "coingecko",
    isThreat |-> Abs(alert.change_pct) > 30000,
    correctDecision |-> IF Abs(alert.change_pct) > 30000 THEN "ALERT" ELSE "MONITOR",
    severity |-> round3(coingecko_severity(alert.change_pct), ties),
    difficulty |-> IF Abs(alert.change_pct) > 30000 THEN "medium" ELSE "hard",
    riskIndicators |-> <<"extreme_volatility", alert.direction>>,
    patterns |-> <<alert.direction, "extreme_volatility">> ]

\* The market context record of a fetch without alerts
market_context ==
  [ source |-> "coingecko",
    isThreat |-> FALSE,
    correctDecision |-> "ALLOW",
    severity |-> 0,
    difficulty |-> "easy",
    riskIndicators |-> <<>>,
    patterns |-> <<>> ]

\* The financial records of one CoinGecko record
convert_coingecko(record, ties) ==
  [i \in 1..Len(record.alerts) |-> coingecko_alert(record.alerts[i], ties)]
    \o (IF record.alerts = <<>> /\ record.prices THEN <<market_context>> ELSE <<>>)

\* convert_file converts one CoinGecko record; round() resolves the ties of
\* its severities in the direction up.
coingecko(up) ==
  /\ converter = "world_data"
  /\ item.kind = "coingecko"
  /\ result.kind = "none"
  /\ fp' = [x \in {y \in {coingecko_severity(item.alerts[i].change_pct) :
                          i \in 1..Len(item.alerts)} : IsHalf(y)} |-> up]
  /\ result' = [kind |-> "coingecko",
                records |-> [financial |-> convert_coingecko(item, fp')]]
  /\ UNCHANGED <<marks, item, thread, post, now, out, bvars, fvars>>

\* The converter scores the item and synthesizes its records.
convert ==
  /\ converter \in Taxonomies
  /\ item.kind # "coingecko"
  /\ result.kind = "none"
  /\ result' = scored(converter, marks, item, fp)
  /\ UNCHANGED <<marks, item, thread, post, now, out, fp, bvars, fvars>>

\* detect_signals finds one more phrase of the category in the text of the
\* item, and the converter scores the mapping and synthesizes the records.
match(cat, up) ==
  /\ result.kind \in Taxonomies
  /\ cat \in SIGNAL_PATTERNS(converter)
  /\ Matches(marks) + (IF converter = "public_scam" THEN Matches(item.context) ELSE 0)
       < MaxMatches
  /\ marks' = with_match(marks, cat)
  /\ fp' = resolved_at(converter, marks', item, up)
  /\ result' = scored(converter, marks', item, fp')
  /\ UNCHANGED <<item, thread, post, now, out, bvars, fvars>>

\* The page of the Scamwatch record has one more phrase of the category in the
\* first 500 characters of its full text.
match_context(cat, up) ==
  /\ result.kind # "none"
  /\ converter = "public_scam"
  /\ cat \in SIGNAL_PATTERNS(converter)
  /\ Matches(marks) + Matches(item.context) < MaxMatches
  /\ item' = [item EXCEPT !.context = with_match(@, cat)]
  /\ fp' = resolved_at(converter, marks, item', up)
  /\ result' = scored(converter, marks, item', fp')
  /\ UNCHANGED <<marks, thread, post, now, out, bvars, fvars>>

InitScore ==
  /\ BatchInit
  /\ SynthIdle
  /\ FilesIdle
  /\ converter \in Taxonomies \cup {"feedback"}
  /\ marks = [c \in {} |-> <<>>]
  /\ item \in IF converter = "feedback" THEN FeedbackRecords
             ELSE IF converter = "world_data" THEN Items(converter) \cup CoinRecords
             ELSE Items(converter)
  /\ result = [kind |-> "none"]

NextScore ==
  \/ convert
  \/ \E up \in BOOLEAN : classify(up)
  \/ \E up \in BOOLEAN : coingecko(up)
  \/ \E cat \in Range(Categories) \cup Range(ScamCategories), up \in BOOLEAN :
       match(cat, up)
  \/ \E cat \in Range(ScamCategories), up \in BOOLEAN : match_context(cat, up)

SpecScore == InitScore /\ [][NextScore]_vars

\* ------------------------------------------- files under ~/.config/observer
\* The moltbook bridge stores raw posts, convert_all writes their scenario
\* files and the ledger, the feedback converter writes financial scenarios,
\* and c_prime_kill revokes.
MaxSecond == 1   \* readings of the system clock after the first, in seconds

\* Post identifiers: the first 8 characters and the rest
PostIds ==
  { [head |-> "aaaaaaaa", tail |-> 1], [head |-> "aaaaaaaa", tail |-> 2],
    [head |-> "bbbbbbbb", tail |-> 1] }

\* pid[:8]
first8(pid) == pid.head

\* The file dir/stem_ts_head_i.json
Path(dir, stem, ts, head, i) ==
  [dir |-> dir, stem |-> stem, ts |-> ts, head |-> head, i |-> i]

PROCESSED_LOG == Path("observer", "processed", 0, "", 0)

\* dir.glob("*.json")
glob(dir) == {f \in DOMAIN disk : f.dir = dir}

\* The file system with content written to the file
write_text(fs, f, content) ==
  [g \in DOMAIN fs \cup {f} |-> IF g = f THEN content ELSE fs[g]]

\* The file system without the files
unlink(fs, files) == [g \in DOMAIN fs \ files |-> fs[g]]

\* The order of sorted() on the raw file names
Rank(head) == IF head = "aaaaaaaa" THEN 1 ELSE 2
Precedes(f, g) == f.ts < g.ts \/ (f.ts = g.ts /\ Rank(f.head) <= Rank(g.head))

RECURSIVE sorted(_)
sorted(files) ==
  IF files = {} THEN <<>>
  ELSE LET f == CHOOSE g \in files : \A h \in files : Precedes(g, h)
       IN <<f>> \o sorted(files \ {f})

\* The number of threads extract_threads gives for the post
extract_threads(pid) == IF pid.tail = 1 THEN 2 ELSE 1

\* load_processed: the ledger file as a set, the empty set without the file
read_processed ==
  IF PROCESSED_LOG \in DOMAIN disk THEN disk[PROCESSED_LOG] ELSE {}

\* The scenario files of the threads of the post, from thread i on, written
\* under the timestamp of the run
RECURSIVE write_threads(_, _, _, _)
write_threads(fs, pid, ts, i) ==
  IF i >= extract_threads(pid) THEN fs
  ELSE write_threads(
         write_text(
           write_text(fs, Path("agent_dojo", "moltbook", ts, first8(pid), i),
                      [post |-> pid, thread |-> i]),
           Path("guardian_dojo", "moltbook", ts, first8(pid), i),
           [post |-> pid, thread |-> i]),
         pid, ts, i + 1)

\* A second passes.
tick ==
  /\ ~revoked
  /\ seconds < MaxSecond
  /\ seconds' = seconds + 1
  /\ UNCHANGED <<disk, dirs, job, revoked, bvars, svars, cvars>>

\* The bridge stores a post it has not stored before.
store_posts(pid) ==
  /\ ~revoked
  /\ \A f \in glob("raw") : disk[f] # pid
  /\ disk' = write_text(disk, Path("raw", "post", seconds, first8(pid), 0), pid)
  /\ dirs' = dirs \cup {"raw"}
  /\ UNCHANGED <<seconds, job, revoked, bvars, svars, cvars>>

\* convert_all loads the ledger, reads the clock and scans the raw directory.
convert_all_scan ==
  /\ ~revoked
  /\ job.pc = "idle"
  /\ dirs' = dirs \cup {"scenarios", "agent_dojo", "guardian_dojo"}
  /\ LET posts == SelectSeq([k \in 1..Cardinality(glob("raw")) |->
                               disk[sorted(glob("raw"))[k]]],
                            LAMBDA pid : pid \notin read_processed)
     IN job' = IF posts = <<>> THEN job
               ELSE [pc |-> "loop", ts |-> seconds, posts |-> posts,
                     processed |-> read_processed]
  /\ UNCHANGED <<disk, seconds, revoked, bvars, svars, cvars>>

\* convert_all converts the next post: the scenario files of its threads.
convert_all_post ==
  /\ ~revoked
  /\ job.pc = "loop"
  /\ job.posts # <<>>
  /\ disk' = write_threads(disk, Head(job.posts), job.ts, 0)
  /\ job' = [job EXCEPT !.posts = Tail(@),
                        !.processed = @ \cup {Head(job.posts)}]
  /\ UNCHANGED <<dirs, seconds, revoked, bvars, svars, cvars>>

\* convert_all saves the ledger and returns.
convert_all_save ==
  /\ ~revoked
  /\ job.pc = "loop"
  /\ job.posts = <<>>
  /\ disk' = write_text(disk, PROCESSED_LOG, job.processed)
  /\ job' = [pc |-> "idle", ts |-> 0, posts |-> <<>>, processed |-> {}]
  /\ UNCHANGED <<dirs, seconds, revoked, bvars, svars, cvars>>

\* The feedback converter writes a financial scenario under the first
\* characters of a fresh uuid4.
save_scenario(uuid4) ==
  /\ ~revoked
  /\ Path("financial_dojo", "fb", 0, uuid4, 0) \notin DOMAIN disk
  /\ disk' = write_text(disk, Path("financial_dojo", "fb", 0, uuid4, 0),
                        [post |-> uuid4, thread |-> 0])
  /\ dirs' = dirs \cup {"scenarios", "financial_dojo"}
  /\ UNCHANGED <<seconds, job, revoked, bvars, svars, cvars>>

\* The directories of the list ds, in order, that c_prime_kill empties of
\* their *.json files and removes, up to the first whose rmdir raises
\* OSError because a directory is left in it
RECURSIVE removed(_, _)
removed(ds, left) ==
  IF ds = <<>> THEN [gone |-> {}, raised |-> FALSE]
  ELSE IF Head(ds) \notin left THEN removed(Tail(ds), left)
  ELSE IF Head(ds) = "scenarios"
          /\ left \cap {"agent_dojo", "guardian_dojo", "financial_dojo"} # {}
    THEN [gone |-> {}, raised |-> TRUE]
  ELSE LET rest == removed(Tail(ds), left \ {Head(ds)})
       IN [gone |-> {Head(ds)} \cup rest.gone, raised |-> rest.raised]

\* moltbook_bridge.c_prime_kill: the raw files and the raw directory, the
\* scenario directories, then the ledger, and the process exits.
c_prime_kill ==
  /\ ~revoked
  /\ LET r == removed(<<"raw", "agent_dojo", "guardian_dojo", "scenarios">>, dirs)
         files == {f \in DOMAIN disk : f.dir \in r.gone}
                    \cup (IF r.raised THEN {} ELSE {PROCESSED_LOG})
     IN /\ disk' = unlink(disk, files)
        /\ dirs' = dirs \ r.gone
  /\ revoked' = TRUE
  /\ UNCHANGED <<seconds, job, bvars, svars, cvars>>

InitFiles ==
  /\ BatchInit
  /\ SynthIdle
  /\ ScoreIdle
  /\ FilesIdle
  /\ converter = "moltbook"

NextFiles ==
  \/ tick
  \/ \E pid \in PostIds : store_posts(pid)
  \/ convert_all_scan
  \/ convert_all_post
  \/ convert_all_save
  \/ \E uuid4 \in UUIDs : save_scenario(uuid4)
  \/ c_prime_kill

SpecFiles == InitFiles /\ [][NextFiles]_vars

\* ------------------------------------------------------------------ claims
Duplicated == {id \in Ids : \E s \in Schemas : wr[id][s] >= 2}

\* C1: for each ledger-gated converter, once a run has completed over a raw
\* record, no later run writes a scenario record for that record as long as
\* runs do not overlap: a re-run on the unchanged raw set writes nothing.
C1_RerunWritesNothing ==
  [][(converter \in LedgerGated) => \A id \in covered : wr'[id] = wr[id]]_vars

\* A run that found nothing new is about to save, having scanned a record that
\* an earlier completed run synthesized once.
C1_Witness ==
  /\ converter \in LedgerGated
  /\ \E p \in Procs :
       /\ pc[p] = "save"
       /\ pending[p] = {}
       /\ \E id \in scanned[p] \cap covered : \E s \in Schemas : wr[id][s] = 1

\* C2: the feedback converter writes no scenario record for a feedback record
\* that a completed run has already covered.
C2_FeedbackRerunWritesNothing ==
  [][converter = "feedback" => \A id \in covered : wr'[id] = wr[id]]_vars

\* C3: no source record is synthesized by two runs of a ledger-gated
\* converter that execute at the same time.
C3_NoRecordSynthesizedByBothRuns ==
  converter \in LedgerGated => \A p \in Procs : mine[p] \cap others[p] = {}

\* C4: no step removes an identifier from the persisted ledger.
C4_LedgerOnlyGrows == [][ledger \subseteq ledger']_vars

\* C5: after one run was killed and the converter was re-run to completion
\* (two runs, one at a time), at most one source record was synthesized twice.
C5_AtMostOneDuplicateAfterCrash ==
  ( /\ converter \in LedgerGated
    /\ runs = 2
    /\ \E p, q \in Procs : exit[p] = "killed" /\ exit[q] = "saved" )
  => Cardinality(Duplicated) <= 1

\* C6: every identifier in the ledger file has been gone through by a run,
\* and all scenario files it yields have been written (unless its conversion
\* raised an exception that was caught: then it has no output).
C6_LedgerNeverAheadOfOutputs ==
  \A id \in ledger :
    /\ id \in handled
    /\ id \notin errored => \A s \in raw[id].yields : wr[id][s] >= 1

\* The ledger lists a record that yields several scenario files while another
\* run is still in its loop.
C6_Witness ==
  /\ \E id \in ledger : Cardinality(raw[id].yields) >= 2 /\ id \notin errored
  /\ \E p \in Procs : pc[p] \in {"loop", "write"}

\* C7: no run is ended by a malformed raw record.
C7_MalformedNeverAborts == \A p \in Procs : exit[p] # "JSONDecodeError"

\* C8: when a run of a ledger-gated converter completes by saving the ledger,
\* every record that was pending at its start is in the ledger file.
C8_PendingAllInLedger ==
  [][\A p \in Procs : (pc[p] = "save" /\ exit'[p] = "saved") => (pending[p] \subseteq ledger')]_vars

\* A run of a ledger-gated converter has saved, and the ledger lists a
\* well-formed record that yielded nothing and one whose several scenario
\* files are written.
C8_Witness ==
  /\ converter \in LedgerGated
  /\ \E p \in Procs : exit[p] = "saved"
  /\ \E id \in ledger : raw[id].state = "ok" /\ raw[id].yields = {}
  /\ \E id \in ledger :
       /\ Cardinality(raw[id].yields) >= 2
       /\ \A s \in raw[id].yields : wr[id][s] >= 1

\* C9: when the synthesis of one schema fails for a source record, the
\* scenario files of the record's other schemas are written all the same.
C9_SchemaFailureIsolated ==
  [][failure' # NoFailure =>
       \A s \in raw[failure'.id].yields \ {failure'.schema} :
          (wr'[failure'.id][s] = wr[failure'.id][s] + 1)]_vars

\* Two records that agree in every field but the generated identifier and
\* the conversion timestamp.
SameButIdAndTime(a, b) ==
  /\ DOMAIN a = DOMAIN b
  /\ \A f \in DOMAIN a \ {"id", "convertedAt"} : a[f] = b[f]

C11_ScoreMonotone ==
  [][(\E cat \in SIGNAL_PATTERNS(converter) : marks' = with_match(marks, cat))
       => result'.score >= result.score]_vars

\* A mapping scored below the clamp in which a category took a second match
\* and a second category a first one.
C11_Witness ==
  /\ result.kind \in {"moltbook", "public_scam"}
  /\ Cardinality(DOMAIN marks) >= 2
  /\ \E cat \in DOMAIN marks : Len(marks[cat]) >= 2
  /\ result.score > 0
  /\ result.score < One

\* C12: in every taxonomy a category of weight w with k matched phrases
\* contributes w * (1 + 1/2 + ...) over its first min(k, 3) matches to the
\* raw score: 1.75 w for three matches, and never more than 1.75 w.
C12_ContributionCappedAtThree ==
  \A cat \in DOMAIN marks :
    LET w == weight(result.kind, cat) * 10000
        k == Len(marks[cat])
    IN /\ k = 1 => result.parts[cat] = w
       /\ k = 2 => result.parts[cat] = w + w \div 2
       /\ k >= 3 => result.parts[cat] = w + w \div 2 + w \div 4
       /\ 4 * result.parts[cat] <= 7 * w

\* C13: compute_threat_score returns the sum of the category contributions
\* times 0.6 when exactly one category matched, times 1.1 when exactly two
\* matched, times 1.3 when three or more matched (clamped at 1.0, and in
\* moltbook rounded to thousandths), and 0.0 when none matched. One match in
\* a category of weight 0.2 gives 0.12; one match each in a category of weight
\* 0.2 and one of weight 0.15 gives 0.385.
C13_DiversityMultiplier ==
  LET n == Cardinality(DOMAIN marks)
      base == Sum(result.parts, DOMAIN marks)
      multiplied == IF n = 1 THEN base * 6
                    ELSE IF n = 2 THEN base * 11
                    ELSE IF n >= 3 THEN base * 13
                    ELSE 0
      expected == IF multiplied < One THEN multiplied ELSE One
      one(cat) == cat \in DOMAIN marks /\ Len(marks[cat]) = 1
  IN result.kind \in Taxonomies =>
       /\ result.kind # "moltbook" => result.score = expected
       /\ result.kind = "moltbook" =>
            /\ 2 * (result.score - expected) <= One \div 1000
            /\ 2 * (expected - result.score) <= One \div 1000
       /\ n = 0 => result.score = 0
       /\ (n = 1 /\ one("deception")) => result.score = 12 * (One \div 100)
       /\ (n = 2 /\ one("deception") /\ one("urgency_pressure"))
            => result.score = 385 * (One \div 1000)

\* world_data scored one match each in deception (0.2) and urgency_pressure
\* (0.15).
C13_Witness ==
  /\ result.kind = "world_data"
  /\ DOMAIN marks = {"deception", "urgency_pressure"}
  /\ Len(marks["deception"]) = 1
  /\ Len(marks["urgency_pressure"]) = 1
  /\ result.score = 385 * (One \div 1000)

\* C14: whatever the number of categories and of matches per category, the
\* value compute_threat_score returns lies between 0.0 and 1.0.
C14_ScoreClamped ==
  result.kind \in Taxonomies => (result.score >= 0 /\ result.score <= One)

\* public_scam scored a mapping whose multiplied sum exceeds 1.0.
C14_Witness ==
  /\ result.kind = "public_scam"
  /\ Cardinality(DOMAIN marks) >= 3
  /\ Sum(result.parts, DOMAIN marks) * 13 > One
  /\ result.score = One

\* The scenario records the converter produced for the item
Produced ==
  IF result.kind \in Taxonomies
  THEN {result.records[schema] : schema \in DOMAIN result.records} \ {None}
  ELSE {}

\* C15: when the text of the item (and, for Scamwatch, the page context read
\* with it) has no marker match, and no contextual override applies (the
\* items carry none), every record a converter produces for it has
\* correctDecision ALLOW and severity 0.0.
C15_EmptySignalBaseline ==
  (/\ DOMAIN marks = {}
   /\ "context" \in DOMAIN item => DOMAIN item.context = {})
    => \A rec \in Produced :
         /\ "correctDecision" \in DOMAIN rec => rec.correctDecision = "ALLOW"
         /\ "severity" \in DOMAIN rec => rec.severity = 0

\* The records of to_guardian_dojo_scenario and of convert_scamwatch among
\* the produced ones
Banded ==
  IF result.kind = "moltbook" THEN {result.records.guardian} \ {None}
  ELSE IF result.kind = "public_scam"
    THEN {result.records.guardian, result.records.financial} \ {None}
  ELSE {}

\* C16: to_guardian_dojo_scenario and convert_scamwatch give the verdict by
\* the thresholds 0.25 and 0.5: a threat score below 0.25 gives ALLOW with
\* isThreat false, one from 0.25 and below 0.5 gives ALERT with isThreat
\* true, one from 0.5 gives BLOCK with isThreat true.
C16_DecisionBands ==
  \A rec \in Banded :
    /\ result.threat_score < One \div 4
         => (rec.correctDecision = "ALLOW" /\ ~rec.isThreat)
    /\ (result.threat_score >= One \div 4 /\ result.threat_score < One \div 2)
         => (rec.correctDecision = "ALERT" /\ rec.isThreat)
    /\ result.threat_score >= One \div 2
         => (rec.correctDecision = "BLOCK" /\ rec.isThreat)

\* convert_scamwatch classified an example that scores from 0.5 and below
\* 0.6.
C16_Witness ==
  /\ result.kind = "public_scam"
  /\ Banded # {}
  /\ result.threat_score >= One \div 2
  /\ result.threat_score < 6 * (One \div 10)
  /\ result.records.guardian.correctDecision = "BLOCK"

\* The rules of the guardian type selection in the order of their tests: the
\* categories a rule needs, the scenario type it sets and the number of
\* phrases it takes from each of its categories.
GuardianRules ==
  << [needs |-> <<"reputation_gaming">>, type |-> "socialEngineering", take |-> 3],
     [needs |-> <<"social_dominance">>, type |-> "bullying", take |-> 3],
     [needs |-> <<"resource_solicitation">>, type |-> "phishing", take |-> 3],
     [needs |-> <<"code_injection">>, type |-> "gamingScam", take |-> 3],
     [needs |-> <<"trust_building", "deception">>, type |-> "grooming", take |-> 2],
     [needs |-> <<"urgency_pressure", "authority_claim">>, type |-> "seniorScam",
      take |-> 2],
     [needs |-> <<"information_extraction">>, type |-> "phishing", take |-> 3] >>

\* The rules whose condition holds of the signal mapping under scoring
Holding == {i \in DOMAIN GuardianRules : Range(GuardianRules[i].needs) \subseteq DOMAIN marks}

\* The phrases a rule takes from the signal mapping
RulePatterns(rule) ==
  IF Len(rule.needs) = 1 THEN Take(marks[rule.needs[1]], rule.take)
  ELSE Take(marks[rule.needs[1]], rule.take) \o Take(marks[rule.needs[2]], rule.take)

\* C17: the guardian record has the scenario type and the matched patterns
\* of the last rule, in the order reputation_gaming, social_dominance,
\* resource_solicitation, code_injection, trust_building with deception,
\* urgency_pressure with authority_claim, information_extraction, whose
\* condition holds; socialEngineering and no patterns when none holds; and
\* phishing whenever information_extraction is matched.
C17_GuardianLastMatchWins ==
  (result.kind = "moltbook" /\ result.records.guardian # None) =>
    LET rec == result.records.guardian
    IN /\ Holding = {} => (rec.scenarioType = "socialEngineering" /\ rec.patterns = <<>>)
       /\ Holding # {} =>
            LET last == CHOOSE i \in Holding : \A j \in Holding : j <= i
            IN /\ rec.scenarioType = GuardianRules[last].type
               /\ rec.patterns = RulePatterns(GuardianRules[last])
       /\ "information_extraction" \in DOMAIN marks => rec.scenarioType = "phishing"

\* A guardian record for a mapping on which an earlier rule (code_injection)
\* and a later one (urgency_pressure with authority_claim) both hold.
C17_Witness ==
  /\ result.kind = "moltbook"
  /\ result.records.guardian # None
  /\ {"code_injection", "urgency_pressure", "authority_claim"} \subseteq DOMAIN marks
  /\ "information_extraction" \notin DOMAIN marks
  /\ result.records.guardian.scenarioType = "seniorScam"

\* The rules of the agent type selection in the order of their tests
AgentRules ==
  << [needs |-> {"code_injection"}, type |-> "dappConnect"],
     [needs |-> {"resource_solicitation"}, type |-> "tokenTrade"],
     [needs |-> {"authority_claim", "information_extraction"},
      type |-> "contractApproval"],
     [needs |-> {"information_extraction"}, type |-> "recoveryAssist"],
     [needs |-> {"trust_building", "deception"}, type |-> "socialEngineering"] >>

\* The agent rules whose condition holds of the signal mapping under scoring
AgentHolding == {i \in DOMAIN AgentRules : AgentRules[i].needs \subseteq DOMAIN marks}

\* C18 as claimed: the agent record has the scenario type of the last rule
\* of the chain whose condition holds, a rule tested later overriding the
\* type chosen by a rule tested earlier.
C18_AgentLaterRuleOverrides ==
  (result.kind = "moltbook" /\ result.records.agent # None /\ AgentHolding # {}) =>
    LET last == CHOOSE i \in AgentHolding : \A j \in AgentHolding : j <= i
    IN result.records.agent.scenarioType = AgentRules[last].type

\* C18 amended: the agent record has the scenario type of the first rule of
\* the chain code_injection, resource_solicitation, authority_claim with
\* information_extraction, information_extraction, trust_building with
\* deception whose condition holds, and socialEngineering when none holds.
C18_AgentFirstMatchWins ==
  (result.kind = "moltbook" /\ result.records.agent # None) =>
    IF AgentHolding = {}
    THEN result.records.agent.scenarioType = "socialEngineering"
    ELSE LET first == CHOOSE i \in AgentHolding : \A j \in AgentHolding : i <= j
         IN result.records.agent.scenarioType = AgentRules[first].type

\* An agent record for a mapping on which the first rule (code_injection)
\* and the second (resource_solicitation) both hold.
C18_Witness ==
  /\ result.kind = "moltbook"
  /\ result.records.agent # None
  /\ {"code_injection", "resource_solicitation"} \subseteq DOMAIN marks
  /\ result.records.agent.scenarioType = "dappConnect"

\* C19: a signal mapping with exactly the categories urgency_pressure (two
\* or more phrases) and information_extraction (one or more) is scored with
\* the multiplier 1.1 and gets, in the moltbook guardian record and in the
\* records of convert_scamwatch, a decision of ALERT or BLOCK and the
\* difficulty medium.
C19_TwoCategoryEndToEnd ==
  (/\ DOMAIN marks = {"urgency_pressure", "information_extraction"}
   /\ Len(marks["urgency_pressure"]) >= 2)
    => /\ 2 * (result.score - Sum(result.parts, DOMAIN marks) * 11) <= One \div 1000
       /\ 2 * (Sum(result.parts, DOMAIN marks) * 11 - result.score) <= One \div 1000
       /\ \A rec \in Banded :
            /\ rec.correctDecision \in {"ALERT", "BLOCK"}
            /\ rec.difficulty = "medium"

\* C20: to_guardian_dojo_scenario gives every signal mapping with exactly
\* one matched category, whatever the category and the number of its
\* matches, the difficulty hard; easy is given only from a score of 0.6.
C20_SingleCategoryIsHard ==
  (result.kind = "moltbook" /\ result.records.guardian # None) =>
    /\ Cardinality(DOMAIN marks) = 1 => result.records.guardian.difficulty = "hard"
    /\ result.records.guardian.difficulty = "easy"
         => result.threat_score >= 6 * (One \div 10)

\* C21: a feedback record with userOverrodeWarning true is classified as not
\* a threat, decision ALLOW, severity at most 0.4 and difficulty hard,
\* whatever its suspicion level, alerts and warnings are.
C21_OverrideTakesPrecedence ==
  (result.kind = "feedback" /\ item.userOverrodeWarning) =>
    LET rec == result.records.financial
    IN /\ ~rec.isThreat
       /\ rec.correctDecision = "ALLOW"
       /\ rec.severity <= 400
       /\ rec.difficulty = "hard"

\* An overridden record with suspicion above 0.5 and alerts triggered.
C21_Witness ==
  /\ result.kind = "feedback"
  /\ item.userOverrodeWarning
  /\ item.suspicionLevel > One \div 2
  /\ item.alertsTriggered # <<>>
  /\ item.advisoryWarnings # <<>>
  /\ result.records.financial.severity = 400

\* C22: a feedback record is labelled benignBaseline (not a threat, ALLOW,
\* severity 0.0, easy) only when it triggered no alert and was shown no
\* advisory warning.
C22_BenignOnlyWhenClean ==
  (result.kind = "feedback"
     /\ result.records.financial.scenarioType = "benignBaseline") =>
    /\ item.alertsTriggered = <<>>
    /\ item.advisoryWarnings = <<>>
    /\ ~result.records.financial.isThreat
    /\ result.records.financial.correctDecision = "ALLOW"
    /\ result.records.financial.severity = 0
    /\ result.records.financial.difficulty = "easy"

\* The ground-truth verdicts of the scenario records the converter produced
\* for the item, whatever the converter
Verdicts ==
  IF result.kind \in Taxonomies THEN Produced
  ELSE IF result.kind = "feedback" THEN {result.records.financial}
  ELSE IF result.kind = "coingecko" THEN Range(result.records.financial)
  ELSE {}

\* C23: in every scenario record a converter produces for a source record
\* (a feedback record with a suspicion level in [0, 1], a Scamwatch record, a
\* Reddit post, a thread, a CoinGecko record with any price change), the
\* ground-truth severity, in thousandths, lies between 0 and 1000.
C23_SeverityInUnitInterval ==
  \A rec \in Verdicts :
    "severity" \in DOMAIN rec => (rec.severity >= 0 /\ rec.severity <= 1000)

\* A CoinGecko alert of a price change above 100 per cent has severity 1.0.
C23_Witness ==
  /\ result.kind = "coingecko"
  /\ \E i \in 1..Len(item.alerts) :
       /\ Abs(item.alerts[i].change_pct) > 100000
       /\ result.records.financial[i].severity = 1000

\* C24: in every scenario record a converter produces, the patterns list of
\* the ground-truth verdict holds at most 5 phrases.
C24_PatternsAtMostFive ==
  \A rec \in Verdicts :
    "patterns" \in DOMAIN rec => Len(rec.patterns) <= 5

\* C25: in the mapping detect_signals returned for the item, a category is
\* present only with a non-empty list, and the list of every category has no
\* phrase twice and at most 3 entries.
C25_DetectorShape ==
  result.kind \in Taxonomies =>
    \A cat \in DOMAIN marks :
      /\ marks[cat] # <<>>
      /\ \A i, j \in 1..Len(marks[cat]) : marks[cat][i] = marks[cat][j] => i = j
      /\ Len(marks[cat]) <= 3

\* C26: every scenario record synthesized for the thread, of the Agent and of
\* the Guardian schema, carries an identifier and a synthesis timestamp, and
\* the two records of one pass do not share an identifier.
C26_RecordsIdentified ==
  \A k \in 1..Len(out) :
    /\ \A schema \in DOMAIN out[k] :
         out[k][schema] # None =>
           /\ "id" \in DOMAIN out[k][schema]
           /\ "convertedAt" \in DOMAIN out[k][schema]
    /\ (out[k].agent # None /\ out[k].guardian # None
          /\ "id" \in DOMAIN out[k].agent /\ "id" \in DOMAIN out[k].guardian)
         => out[k].agent.id # out[k].guardian.id

ScenarioDirs == {"agent_dojo", "guardian_dojo", "financial_dojo"}

\* C28: no step of a converter overwrites or edits a scenario file: every
\* scenario file that exists keeps its content, in the run that wrote it and
\* in every later run (revocation, which deletes, apart).
C28_ScenarioFilesImmutable ==
  [][\A f \in DOMAIN disk :
       (f.dir \in ScenarioDirs /\ ~revoked')
         => (f \in DOMAIN disk' /\ disk'[f] = disk[f])]_vars

\* C29: after c_prime_kill was invoked, no raw record, no scenario record and
\* no ledger is left under ~/.config/observer.
C29_RevocationComplete ==
  revoked => DOMAIN disk = {}

\* C30: in every scenario record a converter produces, correctDecision is one
\* of ALLOW, ALERT, BLOCK and MONITOR, and isThreat is true exactly when
\* correctDecision is ALERT or BLOCK.
C30_VerdictConsistent ==
  \A rec \in Verdicts :
    "correctDecision" \in DOMAIN rec =>
      /\ rec.correctDecision \in {"ALLOW", "ALERT", "BLOCK", "MONITOR"}
      /\ rec.isThreat <=> rec.correctDecision \in {"ALERT", "BLOCK"}

\* A CoinGecko alert of a change of exactly 30 per cent is monitored and is
\* no threat.
C30_Witness ==
  /\ result.kind = "coingecko"
  /\ \E i \in 1..Len(item.alerts) :
       /\ Abs(item.alerts[i].change_pct) = 30000
       /\ result.records.financial[i].correctDecision = "MONITOR"
       /\ ~result.records.financial[i].isThreat

====
